---- MODULE Spec2Model ----
(***************************************************************************)
(* Symmetric eigendecomposition by implicit-shift QR iteration on a        *)
(* tridiagonal matrix (src/linalg/symmetric_eigen.rs).                     *)
(*                                                                         *)
(* Scalars of type N: Real are modelled as fixed-point numbers: the        *)
(* integer x stands for the real x / Scale.  Products, quotients and       *)
(* square roots round to the nearest representable value, as the floating  *)
(* point operations of the source do.  All values are finite (no NaN, no   *)
(* infinity) and the tolerance eps is non-negative.                        *)
(*                                                                         *)
(* Vectors and matrices keep the source's 0-based indices: diag is a       *)
(* function on 0..dim-1, off_diag on 0..dim-2, q on (0..dim-1)^2.          *)
(***************************************************************************)
EXTENDS Integers, FiniteSets, Sequences, TLC

\* ---------------------------------------------------------------- bounds
\* Fixed-point resolution: x stands for x / Scale.
Scale == 8
\* Largest matrix dimension explored.
MaxDim == 5
\* Loop iterations explored when max_niter = 0 (unbounded in the code).
MaxSteps == 6

\* ------------------------------------------------------- scalar arithmetic
Abs(x) == IF x < 0 THEN -x ELSE x

\* a / b rounded to the nearest integer, ties away from zero (b # 0).
RDiv(a, b) ==
    LET n == Abs(a)
        d == Abs(b)
        r == (2 * n + d) \div (2 * d)
    IN  IF (a < 0) = (b < 0) THEN r ELSE -r

\* N's multiplication, division and square root on fixed-point values.
Mul(a, b) == RDiv(a * b, Scale)
Div(a, b) == RDiv(a * Scale, b)
ISqrt(y) == CHOOSE r \in 0..(y + 1) : r * r <= y /\ y < (r + 1) * (r + 1)
Sqrt(x) ==
    LET y == x * Scale
        r == ISqrt(y)
    IN  IF y - r * r > r THEN r + 1 ELSE r

\* f64::signum: 1.0 for +0.0 and positive numbers, -1.0 for negative ones.
Signum(x) == IF x < 0 THEN -Scale ELSE Scale

\* The element of a one-element set: Only({e}) is e, evaluated once.
Only(S) == CHOOSE x \in S : TRUE

\* Indexing that records rather than aborts on an index outside the vector.
At(f, i) == IF i \in DOMAIN f THEN f[i] ELSE 0
Put(f, i, v) == IF i \in DOMAIN f THEN [f EXCEPT ![i] = v] ELSE f

\* |o| > eps * (|a| + |b|) and |o| <= eps * (|a| + |b|): the tests of
\* lines 180 and 124, 196.  Both sides are compared exactly.
Exceeds_or_equals(o, a, b, e) == Abs(o) * Scale >= e * (Abs(a) + Abs(b))
Exceeds(o, a, b, e) == Abs(o) * Scale > e * (Abs(a) + Abs(b))
LeqTol(o, a, b, e) == Abs(o) * Scale <= e * (Abs(a) + Abs(b))

\* --------------------------------------------------------- wilkinson_shift
wilkinson_shift_swapped(tmm, tnn, tmn) ==
    LET sq_tmn == Mul(tmn, tmn) IN
    IF sq_tmn # 0
    THEN LET d == RDiv(tmm - tnn, 2) IN
         tnn - Div(sq_tmn, d + Mul(Signum(d), Sqrt(Mul(d, d) + sq_tmn)))
    ELSE tmm

wilkinson_shift(tmm, tnn, tmn) ==
    LET sq_tmn == Mul(tmn, tmn) IN
    IF sq_tmn # 0
    THEN LET d == RDiv(tmm - tnn, 2) IN
         tnn - Div(sq_tmn, d + Mul(Signum(d), Sqrt(Mul(d, d) + sq_tmn)))
    ELSE tnn

\* ------------------------------------------------ collaborators (external)
\* Complex::norm of (x, y): hypot, with no intermediate rounding.
Hypot(x, y) ==
    LET y2 == x * x + y * y
        r == ISqrt(y2)
    IN  IF y2 - r * r > r THEN r + 1 ELSE r

\* givens::cancel_y: the rotation that zeroes the second component of v, and
\* the norm of v; none when v.y is already zero.
cancel_y(vx, vy) ==
    IF vy # 0
    THEN LET norm == Hypot(vx, vy) IN
         [some |-> TRUE, cos |-> Div(vx, norm), sin |-> Div(-vy, norm), norm |-> norm]
    ELSE [some |-> FALSE, cos |-> Scale, sin |-> 0, norm |-> 0]

\* UnitComplex::rotate_rows on the two columns col, col + 1 of q, for the
\* rotation with real part re and imaginary part im.
rotate_rows(qq, col, re, im) ==
    [rc \in DOMAIN qq |->
        LET a == At(qq, <<rc[1], col>>)
            b == At(qq, <<rc[1], col + 1>>)
        IN  IF rc[2] = col THEN Mul(re, a) + Mul(im, b)
            ELSE IF rc[2] = col + 1 THEN Mul(-im, a) + Mul(re, b)
            ELSE qq[rc]]

\* Matrix2::eigenvalues of the symmetric block [[h00, h01], [h01, h11]].
eigenvalues2(h00, h01, h11) ==
    LET val == RDiv(h00 - h11, 2)
        discr == Mul(h01, h01) + Mul(val, val)
        sqrt_discr == Sqrt(discr)
        half_tra == RDiv(h00 + h11, 2)
    IN  [x |-> half_tra + sqrt_discr, y |-> half_tra - sqrt_discr]

\* Vector2::try_normalize(min_norm).
try_normalize(x, y, min_norm) ==
    LET n == Sqrt(Mul(x, x) + Mul(y, y)) IN
    IF n <= min_norm
    THEN [some |-> FALSE, x |-> 0, y |-> 0]
    ELSE [some |-> TRUE, x |-> Div(x, n), y |-> Div(y, n)]

\* ------------------------------------------------------ delimit_subproblem
\* First loop (lines 175-185): walk n down from end while off_diag[n-1] is
\* negligible.
RECURSIVE ScanEnd(_, _, _, _)
ScanEnd(dg, od, n, e) ==
    IF n > 0 /\ ~Exceeds(At(od, n - 1), At(dg, n), At(dg, n - 1), e)
    THEN ScanEnd(dg, od, n - 1, e)
    ELSE n

\* Second loop (lines 191-202): walk new_start down from n - 1 until the
\* entry below it is zero or negligible (the break), or 0 is reached.
RECURSIVE ScanStart(_, _, _, _)
ScanStart(dg, od, new_start, e) ==
    IF new_start > 0
    THEN IF At(od, new_start - 1) = 0
            \/ LeqTol(At(od, new_start - 1), At(dg, new_start), At(dg, new_start - 1), e)
         THEN new_start
         ELSE ScanStart(dg, od, new_start - 1, e)
    ELSE new_start

\* The indices of off_diag and diag the two loops read, given where they
\* stopped: the first tests off_diag[k - 1] for k from end0 down to n, the
\* second for k from n - 1 down to new_start (index 0 is never tested).
ScanReads(end0, n, new_start) ==
    LET ks == {k \in 1..end0 : k >= n}
              \cup {k \in 1..(n - 1) : k >= new_start}
    IN  [off |-> {k - 1 : k \in ks}, diag |-> {k - 1 : k \in ks} \cup ks]

DelimitFrom_no_empty_check(dg, od, end0, n, e) ==
    Only({[start |-> new_start, end |-> n,
           off |-> IF new_start > 0 THEN Put(od, new_start - 1, 0) ELSE od,
           wOff |-> IF new_start > 0 THEN {new_start - 1} ELSE {},
           accOff |-> ScanReads(end0, n, new_start).off,
           accDiag |-> ScanReads(end0, n, new_start).diag]
          : new_start \in {ScanStart(dg, od, n - 1, e)}})

DelimitFrom_no_zeroing(dg, od, end0, n, e) ==
    IF n = 0
    THEN [start |-> 0, end |-> 0, off |-> od, wOff |-> {},
          accOff |-> ScanReads(end0, 0, 0).off,
          accDiag |-> ScanReads(end0, 0, 0).diag]
    ELSE Only({[start |-> new_start, end |-> n,
                off |-> od,
                wOff |-> {},
                accOff |-> ScanReads(end0, n, new_start).off,
                accDiag |-> ScanReads(end0, n, new_start).diag]
               : new_start \in {ScanStart(dg, od, n - 1, e)}})

\* Lines 187 to 204, once the first loop has stopped at n.
DelimitFrom(dg, od, end0, n, e) ==
    IF n = 0
    THEN [start |-> 0, end |-> 0, off |-> od, wOff |-> {},
          accOff |-> ScanReads(end0, 0, 0).off,
          accDiag |-> ScanReads(end0, 0, 0).diag]
    ELSE Only({[start |-> new_start, end |-> n,
                off |-> IF new_start > 0 THEN Put(od, new_start - 1, 0) ELSE od,
                wOff |-> IF new_start > 0 THEN {new_start - 1} ELSE {},
                accOff |-> ScanReads(end0, n, new_start).off,
                accDiag |-> ScanReads(end0, n, new_start).diag]
               : new_start \in {ScanStart(dg, od, n - 1, e)}})

\* The result: the window (start, end), off_diag with the split entry
\* zeroed, and the indices the call wrote (wOff) and touched (acc).
delimit_subproblem(dg, od, end0, e) ==
    Only({DelimitFrom(dg, od, end0, n, e) : n \in {ScanEnd(dg, od, end0, e)}})

\* ------------------------------------------- the sweep (lines 79 to 127)
\* Lines 92 to 95: the index of off_diag that receives the chased norm, if
\* this is not the first iteration of the for loop.
BulgeIndex_always(i, start0) == {i - 1}
BulgeIndex(i, start0) == IF i > start0 THEN {i - 1} ELSE {}

\* The body of the for loop, lines 92 to 117, for the rotation g at index i.
SweepStep(st, g, i, start0, n) ==
    LET j == i + 1
        od1 == IF BulgeIndex(i, start0) # {} THEN Put(st.off, i - 1, g.norm) ELSE st.off
        mii == At(st.diag, i)
        mjj == At(st.diag, j)
        mij == At(od1, i)
        cc == Mul(g.cos, g.cos)
        ss == Mul(g.sin, g.sin)
        cs == Mul(g.cos, g.sin)
        b == Mul(Mul(cs, 2 * Scale), mij)
        new_ii == (Mul(cc, mii) + Mul(ss, mjj)) - b
        new_jj == (Mul(ss, mii) + Mul(cc, mjj)) + b
        new_ij == Mul(cs, mii - mjj) + Mul(mij, cc - ss)
        more == i # n - 1
        od2 == Put(od1, i, new_ij)
    IN  [diag |-> Put(Put(st.diag, i, new_ii), j, new_jj),
         off |-> IF more THEN Put(od2, i + 1, Mul(At(od1, i + 1), g.cos)) ELSE od2,
         q |-> rotate_rows(st.q, i, g.cos, -g.sin),
         vx |-> IF more THEN new_ij ELSE st.vx,
         vy |-> IF more THEN Mul(-g.sin, At(od1, i + 1)) ELSE st.vy,
         wDiag |-> st.wDiag \cup {i, j},
         wOff |-> st.wOff \cup {i} \cup BulgeIndex(i, start0)
                          \cup (IF more THEN {i + 1} ELSE {}),
         wQ |-> st.wQ \cup {i, j}]

\* The for loop of lines 88-122 from index i on; a failed cancel_y breaks.
\* st carries diag, off_diag, q, the bulge vector v and the indices written.
RECURSIVE SweepFrom(_, _, _, _)
SweepFrom(st, i, start0, n) ==
    IF i >= n THEN st
    ELSE Only({IF g.some
               THEN Only({SweepFrom(st2, i + 1, start0, n)
                          : st2 \in {SweepStep(st, g, i, start0, n)}})
               ELSE st
               : g \in {cancel_y(st.vx, st.vy)}})

\* Lines 124 to 126 and the record of what the sweep did.
SweepResult(st, sh, dg, od, start0, end0, e) ==
    LET m == end0 - 1
        n == end0
    IN  [diag |-> st.diag, off |-> st.off, q |-> st.q,
         end |-> IF LeqTol(At(st.off, m), At(st.diag, m), At(st.diag, n), e)
                 THEN end0 - 1 ELSE end0,
         wDiag |-> st.wDiag, wOff |-> st.wOff, wQ |-> st.wQ,
         accDiag |-> st.wDiag \cup {start0, m, n},
         accOff |-> st.wOff \cup {start0, m},
         rotated |-> st.wQ # {},
         shift |-> [called |-> TRUE, tmm |-> At(dg, m), tnn |-> At(dg, n),
                    tmn |-> At(od, m), out |-> sh]]

\* One bulge-chasing sweep on the window (start0, end0), subdim > 2.
qr_sweep(dg, od, qq, start0, end0, e) ==
    Only({Only({SweepResult(st, sh, dg, od, start0, end0, e)
                : st \in {SweepFrom([diag |-> dg, off |-> od, q |-> qq,
                                     vx |-> At(dg, start0) - sh, vy |-> At(od, start0),
                                     wDiag |-> {}, wOff |-> {}, wQ |-> {}],
                                    start0, start0, end0)}})
          : sh \in {wilkinson_shift(At(dg, end0 - 1), At(dg, end0), At(od, end0 - 1))}})

\* ------------------------------------- the 2x2 solve (lines 128 to 143)
Solve2x2With_keep_end(dg, od, qq, start0, end0, eigvals, basis) ==
    [diag |-> Put(Put(dg, start0 + 0, eigvals.x), start0 + 1, eigvals.y),
     off |-> od,
     q |-> IF basis.some THEN rotate_rows(qq, start0, basis.x, basis.y) ELSE qq,
     end |-> IF basis.some THEN end0 - 1 ELSE end0,
     wDiag |-> {start0, start0 + 1}, wOff |-> {},
     wQ |-> IF basis.some THEN {start0, start0 + 1} ELSE {},
     accDiag |-> {start0, start0 + 1},
     accOff |-> {start0},
     rotated |-> basis.some]

Solve2x2With(dg, od, qq, start0, end0, eigvals, basis) ==
    [diag |-> Put(Put(dg, start0 + 0, eigvals.x), start0 + 1, eigvals.y),
     off |-> od,
     q |-> IF basis.some THEN rotate_rows(qq, start0, basis.x, basis.y) ELSE qq,
     end |-> end0 - 1,
     wDiag |-> {start0, start0 + 1}, wOff |-> {},
     wQ |-> IF basis.some THEN {start0, start0 + 1} ELSE {},
     accDiag |-> {start0, start0 + 1},
     accOff |-> {start0},
     rotated |-> basis.some]

solve_2x2(dg, od, qq, start0, end0, e) ==
    Only({Only({Solve2x2With(dg, od, qq, start0, end0, eigvals, basis)
                : basis \in {try_normalize(eigvals.x - At(dg, start0 + 1),
                                           At(od, start0), e)}})
          : eigvals \in {eigenvalues2(At(dg, start0), At(od, start0),
                                      At(dg, start0 + 1))}})

\* ------------------------------------------------------------------ state
VARIABLES
    dim,        \* m.nrows()
    eps,        \* the tolerance argument
    max_niter,  \* the iteration cap argument
    m_amax,     \* the normalization factor m.amax()
    q,          \* the eigenvector accumulator
    diag,       \* the tridiagonal main diagonal
    off_diag,   \* the tridiagonal off-diagonal
    start,      \* the active window
    end,
    niter,      \* the iteration counter
    pc,         \* position in try_new: "entry", "loop", "done"; "shift" for a bare call
    result,     \* what try_new returned
    q0,         \* q as unpacked from the tridiagonalization
    diag0,      \* diag as unpacked from the tridiagonalization
    off_diag0,  \* off_diag as unpacked from the tridiagonalization
    sweeps,     \* number of loop iterations that ran the sweep
    solves,     \* number of loop iterations that ran the 2x2 solve
    last,       \* what the last loop iteration did, and on which window
    shift       \* arguments and value of the last call of wilkinson_shift

vars == <<dim, eps, max_niter, m_amax, q, diag, off_diag, start, end, niter,
          pc, result, q0, diag0, off_diag0, sweeps, solves, last, shift>>

\* ----------------------------------------------------------------- inputs
DiagValues == {-Scale, Scale \div 2}
OffValues == {0, 1, Scale}
EpsValues == {0, 1}
NiterValues == {0, 1, 2, 3}
AmaxValues == {3 * Scale}
ShiftValues == {-Scale, -1, 0, 1, 2, Scale}

Identity(d) == [rc \in (0..(d - 1)) \X (0..(d - 1)) |-> IF rc[1] = rc[2] THEN Scale ELSE 0]

NoResult == [kind |-> "pending"]
NoIteration == [kind |-> "none", start |-> 0, end |-> 0, rotated |-> FALSE,
                wDiag |-> {}, wOff |-> {}, wQ |-> {}, accDiag |-> {}, accOff |-> {}]
NoShift == [called |-> FALSE, tmm |-> 0, tnn |-> 0, tmn |-> 0, out |-> 0]

\* diag *= m_amax
rescale(dg, amax) == [k \in DOMAIN dg |-> Mul(dg[k], amax)]

\* niter == max_niter, the test of line 152.
cap_exceeded(n, cap) == n > cap
cap_reached(n, cap) == n = cap

\* The state at line 62: the matrix has been normalized and tridiagonalized,
\* (q, diag, off_diag) unpacked.  A zero matrix has m_amax = 0 and is left
\* unscaled.
Init ==
    /\ dim \in 1..MaxDim
    /\ eps \in EpsValues
    /\ max_niter \in NiterValues
    /\ \/ /\ m_amax \in AmaxValues
          /\ diag \in [0..(dim - 1) -> DiagValues]
          /\ off_diag \in [0..(dim - 2) -> OffValues]
       \/ /\ m_amax = 0
          /\ diag = [k \in 0..(dim - 1) |-> 0]
          /\ off_diag = [k \in 0..(dim - 2) |-> 0]
    /\ q = Identity(dim)
    /\ q0 = q
    /\ diag0 = diag
    /\ off_diag0 = off_diag
    /\ start = 0
    /\ end = 0
    /\ niter = 0
    /\ pc = "entry"
    /\ result = NoResult
    /\ sweeps = 0
    /\ solves = 0
    /\ last = NoIteration
    /\ shift = NoShift

\* Lines 64 to 74: the 1x1 case returns at once; otherwise the first window
\* is delimited.
Enter ==
    /\ pc = "entry"
    /\ IF dim = 1
       THEN /\ diag' = rescale(diag, m_amax)
            /\ result' = [kind |-> "Some", eigenvectors |-> q, eigenvalues |-> diag']
            /\ pc' = "done"
            /\ UNCHANGED <<off_diag, start, end, niter, last>>
       ELSE \E sub \in {delimit_subproblem(diag, off_diag, dim - 1, eps)} :
            /\ niter' = 0
            /\ start' = sub.start
            /\ end' = sub.end
            /\ off_diag' = sub.off
            /\ last' = [NoIteration EXCEPT !.kind = "delimit", !.wOff = sub.wOff,
                                           !.accDiag = sub.accDiag, !.accOff = sub.accOff]
            /\ pc' = "loop"
            /\ UNCHANGED <<diag, result>>
    /\ UNCHANGED <<dim, eps, max_niter, m_amax, q, q0, diag0, off_diag0, sweeps, solves, shift>>

\* One iteration of the while loop, lines 76 to 155: dispatch on the window
\* size, re-delimit, count the iteration and test the cap.
LoopIter ==
    /\ pc = "loop"
    /\ end # start
    /\ niter < MaxSteps
    /\ \E kind \in {IF end - start + 1 > 2 THEN "sweep"
                    ELSE IF end - start + 1 = 2 THEN "solve" ELSE "skip"} :
       \E r \in {IF kind = "sweep" THEN qr_sweep(diag, off_diag, q, start, end, eps)
                 ELSE IF kind = "solve" THEN solve_2x2(diag, off_diag, q, start, end, eps)
                 ELSE [diag |-> diag, off |-> off_diag, q |-> q, end |-> end,
                       wDiag |-> {}, wOff |-> {}, wQ |-> {},
                       accDiag |-> {}, accOff |-> {}, rotated |-> FALSE]} :
       \E sub \in {delimit_subproblem(r.diag, r.off, r.end, eps)} :
           /\ diag' = r.diag
           /\ q' = r.q
           /\ off_diag' = sub.off
           /\ start' = sub.start
           /\ end' = sub.end
           /\ niter' = niter + 1
           /\ sweeps' = IF kind = "sweep" THEN sweeps + 1 ELSE sweeps
           /\ solves' = IF kind = "solve" THEN solves + 1 ELSE solves
           /\ shift' = IF kind = "sweep" THEN r.shift ELSE shift
           /\ last' = [kind |-> kind, start |-> start, end |-> end, rotated |-> r.rotated,
                       wDiag |-> r.wDiag, wOff |-> r.wOff \cup sub.wOff, wQ |-> r.wQ,
                       accDiag |-> r.accDiag \cup sub.accDiag,
                       accOff |-> r.accOff \cup sub.accOff]
           /\ IF cap_reached(niter', max_niter)
              THEN /\ result' = [kind |-> "None"]
                   /\ pc' = "done"
              ELSE /\ pc' = "loop"
                   /\ UNCHANGED result
    /\ UNCHANGED <<dim, eps, max_niter, m_amax, q0, diag0, off_diag0>>

\* Lines 157 to 164: the loop has ended with start == end.
Finish ==
    /\ pc = "loop"
    /\ end = start
    /\ diag' = rescale(diag, m_amax)
    /\ result' = [kind |-> "Some", eigenvectors |-> q, eigenvalues |-> diag']
    /\ pc' = "done"
    /\ UNCHANGED <<dim, eps, max_niter, m_amax, q, off_diag, start, end, niter,
                   q0, diag0, off_diag0, sweeps, solves, last, shift>>

Next == Enter \/ LoopIter \/ Finish

Spec == Init /\ [][Next]_vars

\* ------------------------------------------- wilkinson_shift called alone
\* The tests of lines 253 to 307 call wilkinson_shift on a bare 2x2 block.
ShiftInit ==
    /\ pc = "shift"
    /\ shift \in [called : {FALSE}, tmm : ShiftValues, tnn : ShiftValues,
                  tmn : ShiftValues, out : {0}]
    /\ dim = 2
    /\ eps = 0
    /\ max_niter = 0
    /\ m_amax = 0
    /\ q = Identity(2)
    /\ q0 = q
    /\ diag = [k \in 0..1 |-> 0]
    /\ diag0 = diag
    /\ off_diag = [k \in 0..0 |-> 0]
    /\ off_diag0 = off_diag
    /\ start = 0
    /\ end = 0
    /\ niter = 0
    /\ result = NoResult
    /\ sweeps = 0
    /\ solves = 0
    /\ last = NoIteration

CallShift ==
    /\ pc = "shift"
    /\ ~shift.called
    /\ shift' = [shift EXCEPT !.called = TRUE,
                              !.out = wilkinson_shift(shift.tmm, shift.tnn, shift.tmn)]
    /\ UNCHANGED <<dim, eps, max_niter, m_amax, q, diag, off_diag, start, end, niter,
                   pc, result, q0, diag0, off_diag0, sweeps, solves, last>>

ShiftNext == CallShift

ShiftSpec == ShiftInit /\ [][ShiftNext]_vars

\* ================================================================ claims
Iterated == last.kind \in {"sweep", "solve", "skip"}
NextWindowActive == pc = "loop" /\ start # end

C2_SomeIffConverged ==
    pc = "done" => (result.kind = "Some" <=> start = end)

\* C4: when dim is 1 or every off-diagonal entry of the tridiagonal form is
\* negligible, no loop iteration runs, try_new returns Some for every
\* max_niter, the eigenvalues are the tridiagonal diag times m_amax in their
\* positions and the eigenvectors are the unpacked q, unmodified.
BaseCase ==
    \/ dim = 1
    \/ \A k \in DOMAIN off_diag0 :
           Abs(off_diag0[k]) * Scale <= eps * (Abs(diag0[k]) + Abs(diag0[k + 1]))

C4_BaseCaseNoIteration ==
    BaseCase =>
        /\ niter = 0 /\ sweeps = 0 /\ solves = 0
        /\ q = q0
        /\ off_diag = off_diag0
        /\ pc = "loop" => (start = end /\ diag = diag0)
        /\ pc = "done" =>
              /\ result.kind = "Some"
              /\ result.eigenvectors = q0
              /\ result.eigenvalues = [k \in DOMAIN diag0 |-> Mul(diag0[k], m_amax)]

\* A 3x3 input with non-zero but negligible off-diagonal entries returns
\* Some under max_niter = 1.
C4_Witness ==
    /\ pc = "done"
    /\ BaseCase
    /\ dim >= 3
    /\ max_niter = 1
    /\ \E k \in DOMAIN off_diag0 : off_diag0[k] # 0
    /\ result.kind = "Some"
    /\ m_amax # 0

\* C5: wilkinson_shift(tmm, tnn, tmn) returns tnn exactly whenever tmn = 0.
C5_ShiftZeroOffDiagonal ==
    (shift.called /\ shift.tmn = 0) => shift.out = shift.tnn

\* wilkinson_shift was called on a diagonal block with distinct entries.
C5_Witness ==
    /\ shift.called
    /\ shift.tmn = 0
    /\ shift.tmm # shift.tnn
    /\ shift.tnn # 0
    /\ shift.out = shift.tnn

\* C6 as stated: between two successive loop iterations the window never
\* grows: start' >= start, end' <= end, and the width does not increase.
C6_WindowNeverGrows ==
    (Iterated /\ NextWindowActive) =>
        /\ start >= last.start
        /\ end <= last.end
        /\ end - start <= last.end - last.start

\* C6 amended: end never increases, and the next window either lies inside
\* the previous one (start' >= start) or, the previous window's block being
\* fully deflated, lies entirely below it (end' < start); in the latter case
\* start decreases and the width may grow.
C6_WindowShrinksOrMovesBelow ==
    (Iterated /\ NextWindowActive) =>
        /\ end <= last.end
        /\ \/ start >= last.start /\ end - start <= last.end - last.start
           \/ end < last.start

\* After a 2x2 solve on the trailing block the next window is an earlier
\* block, with a lower start and a larger width.
C6_Witness ==
    /\ Iterated
    /\ NextWindowActive
    /\ end < last.start
    /\ end - start > last.end - last.start

\* C7: end never increases, and every iteration that runs the 2x2 solver
\* lowers end by at least one, whether or not the rotation was applied to q.
C7_EndNeverIncreases ==
    /\ pc # "entry" => end <= dim - 1
    /\ Iterated => end <= last.end
    /\ last.kind = "solve" => end <= last.end - 1

\* A 2x2 solve whose basis vector was too small to normalize: no rotation
\* was applied and end dropped.
C7_Witness ==
    /\ last.kind = "solve"
    /\ ~last.rotated
    /\ end < last.end
    /\ off_diag[last.start] # 0

\* C8: delimit_subproblem returns (0, 0) or a pair with
\* start < end <= dim - 1, so inside the loop subdim is at least 2, every
\* iteration runs the sweep or the 2x2 solver, and none is counted without
\* a dispatch.
C8_SubdimAtLeastTwo ==
    /\ pc # "entry" => \/ start = 0 /\ end = 0
                       \/ 0 <= start /\ start < end /\ end <= dim - 1
    /\ NextWindowActive => end - start + 1 >= 2
    /\ last.kind # "skip"
    /\ Iterated => sweeps + solves = niter

\* A sweep left a window of exactly two entries for the next iteration.
C8_Witness ==
    /\ NextWindowActive
    /\ last.kind = "sweep"
    /\ end - start + 1 = 2
    /\ start > 0

\* C9: whenever delimit_subproblem has returned start < end, every
\* off_diag[k] with start <= k < end is non-negligible and non-zero, and if
\* start > 0 then off_diag[start - 1] is exactly zero; so the seed vector's
\* second component off_diag[start] is non-zero at the start of every sweep.
C9_DelimitPostcondition ==
    (pc \in {"loop", "done"} /\ start < end) =>
        /\ \A k \in start..(end - 1) :
              /\ Abs(off_diag[k]) * Scale > eps * (Abs(diag[k]) + Abs(diag[k + 1]))
              /\ off_diag[k] # 0
        /\ start > 0 => off_diag[start - 1] = 0
        /\ off_diag[start] # 0

\* The first delimit split the matrix at a negligible non-zero entry, which
\* it zeroed, leaving a window of at least three entries to sweep.
C9_Witness ==
    /\ pc = "loop"
    /\ last.kind = "delimit"
    /\ start > 0
    /\ end - start + 1 > 2
    /\ off_diag0[start - 1] # 0
    /\ off_diag[start - 1] = 0

\* A step of the while loop.
IterStep == pc = "loop" /\ start # end /\ niter' = niter + 1

InBounds ==
    /\ last'.accDiag \subseteq 0..(dim - 1)
    /\ last'.accOff \subseteq 0..(dim - 2)
    /\ last'.wQ \subseteq 0..(dim - 1)

\* C10 as stated: a loop iteration on the window (start, end) modifies only
\* diag[start..=end], off_diag[start-1 .. end-1] and columns start..=end of
\* q, and touches no index outside the vectors.
C10_FrameWithinWindow ==
    [][IterStep =>
        /\ \A k \in DOMAIN diag : diag'[k] # diag[k] => k \in start..end
        /\ \A k \in DOMAIN off_diag :
              off_diag'[k] # off_diag[k] => k \in (start - 1)..(end - 1)
        /\ \A rc \in DOMAIN q : q'[rc] # q[rc] => rc[2] \in start..end
        /\ InBounds]_vars

\* C10 amended: a loop iteration on the window (start, end) modifies only
\* diag[start..=end], columns start..=end of q, off_diag[start .. end-1]
\* and the one entry off_diag[start' - 1] that the re-delimit zeroes below
\* the next window (start', end'), which lies below start - 1 when the next
\* window is an earlier block; entries of diag and columns of q above end
\* are not written before the final rescale, and no index outside the
\* vectors is touched.
C10_FrameAmended ==
    [][IterStep =>
        /\ \A k \in DOMAIN diag : diag'[k] # diag[k] => k \in start..end
        /\ \A k \in DOMAIN off_diag :
              off_diag'[k] # off_diag[k] =>
                  \/ k \in start..(end - 1)
                  \/ start' > 0 /\ k = start' - 1 /\ off_diag'[k] = 0
        /\ \A rc \in DOMAIN q : q'[rc] # q[rc] => rc[2] \in start..end
        /\ last'.wDiag \subseteq start..end
        /\ last'.wQ \subseteq start..end
        /\ last'.wOff \subseteq (start..(end - 1))
                                \cup (IF start' > 0 THEN {start' - 1} ELSE {})
        /\ \A k \in (end' + 1)..(dim - 1) :
              k > end => (diag'[k] = diag[k] /\ \A r \in 0..(dim - 1) : q'[r, k] = q[r, k])
        /\ InBounds]_vars

\* The re-delimit after an iteration zeroed a non-zero entry of off_diag
\* more than one place below the window that iteration worked on.
C10_Witness ==
    /\ last.kind \in {"sweep", "solve"}
    /\ \E k \in last.wOff :
          /\ k < last.start - 1
          /\ off_diag[k] = 0
          /\ off_diag0[k] # 0

====
